---- MODULE Spec2Model ----
(***************************************************************************)
(* Model of the decision-tree backend (decisionTree.ts, server.ts).        *)
(*                                                                         *)
(* JavaScript values are records tagged by the field k:                    *)
(*   [k |-> "undefined"], [k |-> "null"], [k |-> "string", s |-> ...],      *)
(*   [k |-> "number", n2 |-> 2*value]  (so that 1.5 is n2 = 3),             *)
(*   [k |-> "array", items |-> <<...>>],                                    *)
(*   [k |-> "object", <own keys> ...]   a JSON object,                      *)
(*   [k |-> "action", cls |-> ..., <fields>]  an instance of an Action     *)
(*   class.                                                                *)
(* A call either returns a value or throws: [ok, val, err].                *)
(***************************************************************************)
EXTENDS Integers, Sequences, FiniteSets, TLC

VARIABLES registry, request, pc, action, caught, trace, response, wire, reloaded

vars == <<registry, request, pc, action, caught, trace, response, wire, reloaded>>

\* ------------------------------------------------------------------ bounds
\* Largest integer iteration count of the loop nodes that are submitted.
MaxIter == 2
\* Longest "actions" array of the sequence nodes that are submitted.
MaxSeqLen == 2

\* ------------------------------------------------------- JavaScript values
Undefined == [k |-> "undefined"]
Null == [k |-> "null"]
Str(s) == [k |-> "string", s |-> s]
Num(n) == [k |-> "number", n2 |-> 2 * n]
Half(n2) == [k |-> "number", n2 |-> n2]
Arr(items) == [k |-> "array", items |-> items]

Ok(v) == [ok |-> TRUE, val |-> v, err |-> "none"]
Throw(e) == [ok |-> FALSE, val |-> Undefined, err |-> e]

\* The two messages createAction throws, and the engine's TypeError.
InvalidJSON == "Invalid JSON: missing type property."
UnknownType == "Unknown action type"
TypeError == "TypeError"

Nullish(v) == v.k \in {"undefined", "null"}

\* Boolean(v) / the truthiness test of `!v`, `v ? a : b`, `if (v)`.
Truthy(v) ==
  CASE v.k \in {"undefined", "null"} -> FALSE
    [] v.k = "string" -> v.s # ""
    [] v.k = "number" -> v.n2 # 0
    [] OTHER -> TRUE

\* v.key for a value that is not null or undefined: an own key or undefined.
Get(v, key) == IF v.k = "object" /\ key \in DOMAIN v THEN v[key] ELSE Undefined

\* ----------------------------------------------------------------- registry
\* Members every object literal inherits from Object.prototype; registry is
\* the object literal {} and registry[json.type] reads them as well.
ObjectPrototypeKeys == {"constructor", "toString", "__proto__"}

EmptyRegistry == [t \in {} |-> ""]

\* ActionFactory.register: registry[type] = factory.
Register(reg, type, factory) ==
  [t \in DOMAIN reg \cup {type} |-> IF t = type THEN factory ELSE reg[t]]

\* The registry after the module has been loaded: the five register calls.
ShippedRegistry ==
  Register(Register(Register(Register(Register(EmptyRegistry,
    "send_sms", "send_sms"), "send_email", "send_email"),
    "condition", "condition"), "loop", "loop"), "sequence", "sequence")

\* ActionFactory.registry[json.type]: an own entry, else an inherited member.
RegistryGet(reg, key) ==
  IF key \in DOMAIN reg THEN [k |-> "builder", name |-> reg[key]]
  ELSE IF key \in ObjectPrototypeKeys THEN [k |-> "inherited", name |-> key]
  ELSE Undefined

\* The property key json.type is converted to.
ToPropertyKey(v) == IF v.k = "string" THEN v.s ELSE "[object Object]"

\* Calling an inherited member as factory(json): Object(json) returns json
\* itself, Object.prototype.toString returns a string, and the object
\* Object.prototype (read under the key __proto__) is not callable.
CallInherited(name, json) ==
  CASE name = "constructor" -> Ok(json)
    [] name = "toString" -> Ok(Str("[object Undefined]"))
    [] OTHER -> Throw(TypeError)

\* ------------------------------------------------------------ constructors
SendSmsAction(phone) == [k |-> "action", cls |-> "SendSmsAction", phone |-> phone]

SendEmailAction(sender, receiver) ==
  [k |-> "action", cls |-> "SendEmailAction", sender |-> sender, receiver |-> receiver]

ConditionAction(expression, trueAction, falseAction) ==
  [k |-> "action", cls |-> "ConditionAction", expression |-> expression,
   trueAction |-> trueAction, falseAction |-> falseAction]

LoopAction(iterations, act) ==
  [k |-> "action", cls |-> "LoopAction", iterations |-> iterations, action |-> act]

SequenceAction(actions) == [k |-> "action", cls |-> "SequenceAction", actions |-> actions]

IsAction(v) == v.k = "action"

\* ------------------------------------------------------------ createAction
RECURSIVE CreateAction(_, _)
RECURSIVE MapCreate(_, _)

\* json.actions.map(actionJson => ActionFactory.createAction(actionJson)):
\* the elements are built in array order and the first throw ends the map.
MapCreate(reg, items) ==
  IF Len(items) = 0 THEN Ok(<<>>)
  ELSE LET h == CreateAction(reg, Head(items))
       IN IF ~h.ok THEN h
          ELSE LET t == MapCreate(reg, Tail(items))
               IN IF ~t.ok THEN t ELSE Ok(<<h.val>> \o t.val)

\* A send_sms builder that validates params.phone (the code does not).
BuildSendSms_Validating(reg, json) ==
  LET params == Get(json, "params")
  IN IF Nullish(params) \/ Get(params, "phone") = Undefined THEN Throw(InvalidJSON)
     ELSE Ok(SendSmsAction(Get(params, "phone")))

\* The builder registered for "send_sms".
BuildSendSms(reg, json) ==
  LET params == Get(json, "params")
  IN IF Nullish(params) THEN Throw(TypeError)
     ELSE Ok(SendSmsAction(Get(params, "phone")))

\* The builder registered for "send_email".
BuildSendEmail(reg, json) ==
  LET params == Get(json, "params")
  IN IF Nullish(params) THEN Throw(TypeError)
     ELSE Ok(SendEmailAction(Get(params, "sender"), Get(params, "receiver")))

\* The builder registered for "condition": the constructor's arguments are
\* evaluated left to right; falseAction is built only when it is truthy.
BuildCondition(reg, json) ==
  LET params == Get(json, "params")
  IN IF Nullish(params) THEN Throw(TypeError)
     ELSE LET t == CreateAction(reg, Get(json, "trueAction"))
          IN IF ~t.ok THEN t
             ELSE LET f == IF Truthy(Get(json, "falseAction"))
                           THEN CreateAction(reg, Get(json, "falseAction"))
                           ELSE Ok(Undefined)
                  IN IF ~f.ok THEN f
                     ELSE Ok(ConditionAction(Get(params, "expression"), t.val, f.val))

\* A loop builder that accepts non-negative integers only (the code accepts
\* any value).
BuildLoop_Validating(reg, json) ==
  LET params == Get(json, "params")
      n == Get(params, "iterations")
  IN IF Nullish(params) THEN Throw(TypeError)
     ELSE IF ~(n.k = "number" /\ n.n2 >= 0 /\ n.n2 % 2 = 0) THEN Throw(InvalidJSON)
     ELSE LET b == CreateAction(reg, Get(json, "action"))
          IN IF ~b.ok THEN b ELSE Ok(LoopAction(n, b.val))

\* The builder registered for "loop".
BuildLoop(reg, json) ==
  LET params == Get(json, "params")
  IN IF Nullish(params) THEN Throw(TypeError)
     ELSE LET b == CreateAction(reg, Get(json, "action"))
          IN IF ~b.ok THEN b ELSE Ok(LoopAction(Get(params, "iterations"), b.val))

\* The builder registered for "sequence"; .map exists on arrays only.
BuildSequence(reg, json) ==
  LET actions == Get(json, "actions")
  IN IF actions.k # "array" THEN Throw(TypeError)
     ELSE LET m == MapCreate(reg, actions.items)
          IN IF ~m.ok THEN m ELSE Ok(SequenceAction(m.val))

\* factory(json) for a registered builder.
CallBuilder(reg, name, json) ==
  CASE name = "send_sms" -> BuildSendSms(reg, json)
    [] name = "send_email" -> BuildSendEmail(reg, json)
    [] name = "condition" -> BuildCondition(reg, json)
    [] name = "loop" -> BuildLoop(reg, json)
    [] name = "sequence" -> BuildSequence(reg, json)

\* ActionFactory.createAction.
CreateAction(reg, json) ==
  IF ~Truthy(json) \/ ~Truthy(Get(json, "type")) THEN Throw(InvalidJSON)
  ELSE LET factory == RegistryGet(reg, ToPropertyKey(Get(json, "type")))
       IN IF ~Truthy(factory) THEN Throw(UnknownType)
          ELSE IF factory.k = "inherited" THEN CallInherited(factory.name, json)
          ELSE CallBuilder(reg, factory.name, json)

\* ------------------------------------------------------------------ toJSON
RECURSIVE ToJSON(_)
RECURSIVE MapToJSON(_)

\* this.actions.map(action => action.toJSON()).
MapToJSON(actions) ==
  IF Len(actions) = 0 THEN Ok(<<>>)
  ELSE LET h == ToJSON(Head(actions))
       IN IF ~h.ok THEN h
          ELSE LET t == MapToJSON(Tail(actions))
               IN IF ~t.ok THEN t ELSE Ok(<<h.val>> \o t.val)

SendSmsToJSON(a) ==
  Ok([k |-> "object", type |-> Str("send_sms"),
      params |-> [k |-> "object", phone |-> a.phone]])

SendEmailToJSON(a) ==
  Ok([k |-> "object", type |-> Str("send_email"),
      params |-> [k |-> "object", sender |-> a.sender, receiver |-> a.receiver]])

\* A toJSON that writes the two branches under each other's key.
ConditionToJSON_Swapped(a) ==
  LET t == ToJSON(a.trueAction)
  IN IF ~t.ok THEN t
     ELSE LET f == IF Truthy(a.falseAction) THEN ToJSON(a.falseAction) ELSE Ok(Undefined)
          IN IF ~f.ok THEN f
             ELSE Ok([k |-> "object", type |-> Str("condition"),
                      params |-> [k |-> "object", expression |-> a.expression],
                      trueAction |-> IF Truthy(a.falseAction) THEN f.val ELSE t.val,
                      falseAction |-> IF Truthy(a.falseAction) THEN t.val ELSE f.val])

ConditionToJSON(a) ==
  LET t == ToJSON(a.trueAction)
  IN IF ~t.ok THEN t
     ELSE LET f == IF Truthy(a.falseAction) THEN ToJSON(a.falseAction) ELSE Ok(Undefined)
          IN IF ~f.ok THEN f
             ELSE Ok([k |-> "object", type |-> Str("condition"),
                      params |-> [k |-> "object", expression |-> a.expression],
                      trueAction |-> t.val, falseAction |-> f.val])

LoopToJSON(a) ==
  LET b == ToJSON(a.action)
  IN IF ~b.ok THEN b
     ELSE Ok([k |-> "object", type |-> Str("loop"),
              params |-> [k |-> "object", iterations |-> a.iterations],
              action |-> b.val])

SequenceToJSON(a) ==
  LET m == MapToJSON(a.actions)
  IN IF ~m.ok THEN m
     ELSE Ok([k |-> "object", type |-> Str("sequence"), actions |-> Arr(m.val)])

\* a.toJSON(); a value that is no Action has no toJSON method to call.
ToJSON(a) ==
  IF ~IsAction(a) THEN Throw(TypeError)
  ELSE CASE a.cls = "SendSmsAction" -> SendSmsToJSON(a)
         [] a.cls = "SendEmailAction" -> SendEmailToJSON(a)
         [] a.cls = "ConditionAction" -> ConditionToJSON(a)
         [] a.cls = "LoopAction" -> LoopToJSON(a)
         [] a.cls = "SequenceAction" -> SequenceToJSON(a)

\* ------------------------------------------------- condition expressions
\* The template literal `${this.expression}`.
ToSourceText(v) ==
  CASE v.k = "string" -> v.s
    [] v.k = "undefined" -> "undefined"
    [] v.k = "null" -> "null"
    [] OTHER -> "[object Object]"

Id(name) == [t |-> "id", name |-> name]
Lit(v) == [t |-> "lit", val |-> v]

\* new Function("context", `with(context) { return (<source>); }`): what the
\* engine's parser makes of the sources that are submitted; any other text
\* stands for one the parser rejects.
Parse(src) ==
  CASE src = "date === '1.1.2025'" ->
         Ok([op |-> "strictEq", a |-> Id("date"), b |-> Lit(Str("1.1.2025"))])
    [] src = "date === undefined" ->
         Ok([op |-> "strictEq", a |-> Id("date"), b |-> Id("undefined")])
    [] src = "!date" -> Ok([op |-> "not", a |-> Id("date"), b |-> Lit(Undefined)])
    [] src = "undefined" -> Ok([op |-> "value", a |-> Id("undefined"), b |-> Lit(Undefined)])
    [] src = "null" -> Ok([op |-> "value", a |-> Lit(Null), b |-> Lit(Undefined)])
    [] OTHER -> Throw("SyntaxError")

\* A lookup in the scope object alone: an absent key reads as undefined.
ResolveId_AbsentIsUndefined(scope, name) ==
  IF name \in DOMAIN scope \ {"k"} THEN Ok(scope[name]) ELSE Ok(Undefined)

\* An identifier inside with(scope): a key of the scope object, else a
\* global binding (undefined is one), else a ReferenceError.
ResolveId(scope, name) ==
  IF name \in DOMAIN scope \ {"k"} THEN Ok(scope[name])
  ELSE IF name = "undefined" THEN Ok(Undefined)
  ELSE Throw("ReferenceError")

EvalOperand(scope, o) == IF o.t = "id" THEN ResolveId(scope, o.name) ELSE Ok(o.val)

\* func(context || {}): the value of the parsed expression, or the throw.
EvalAst(scope, ast) ==
  LET x == EvalOperand(scope, ast.a)
  IN IF ~x.ok THEN x
     ELSE CASE ast.op = "value" -> x
            [] ast.op = "not" -> Ok([k |-> "boolean", b |-> ~Truthy(x.val)])
            [] ast.op = "strictEq" ->
                 LET y == EvalOperand(scope, ast.b)
                 IN IF ~y.ok THEN y ELSE Ok([k |-> "boolean", b |-> x.val = y.val])

ToBoolean(v) == IF v.k = "boolean" THEN v.b ELSE Truthy(v)

\* A catch block that leaves the result true.
EvaluateCondition_ThrowIsTrue(expression, context) ==
  LET parsed == Parse(ToSourceText(expression))
      scope == IF Truthy(context) THEN context ELSE [k |-> "object"]
      value == IF parsed.ok THEN EvalAst(scope, parsed.val) ELSE parsed
  IN [result |-> IF value.ok THEN ToBoolean(value.val) ELSE TRUE,
      error |-> value.err]

\* The try block of ConditionAction.execute: result stays false when either
\* new Function or the call throws; error is what console.error is given.
EvaluateCondition(expression, context) ==
  LET parsed == Parse(ToSourceText(expression))
      scope == IF Truthy(context) THEN context ELSE [k |-> "object"]
      value == IF parsed.ok THEN EvalAst(scope, parsed.val) ELSE parsed
  IN [result |-> IF value.ok THEN ToBoolean(value.val) ELSE FALSE,
      error |-> value.err]

\* ----------------------------------------------------------------- execute
\* What one execute call leaves behind: the events in the order they
\* happen, and the error it throws ("none" when it returns).
Ran(events) == [trace |-> events, err |-> "none"]

Child(path, key, i) == Append(path, <<key, i>>)

\* ToNumber(v) doubled, for the comparison i < this.iterations.
ToNumber2(v) ==
  CASE v.k = "number" -> [nan |-> FALSE, n2 |-> v.n2]
    [] v.k = "null" -> [nan |-> FALSE, n2 |-> 0]
    [] v.k = "string" /\ v.s = "2" -> [nan |-> FALSE, n2 |-> 4]
    [] v.k = "string" /\ v.s = "" -> [nan |-> FALSE, n2 |-> 0]
    [] OTHER -> [nan |-> TRUE, n2 |-> 0]

\* The comparison written as i <= this.iterations.
LessThan_OrEqual(i, v) == LET n == ToNumber2(v) IN ~n.nan /\ 2 * i <= n.n2

\* i < v for an integer i; false when v converts to NaN.
LessThan(i, v) == LET n == ToNumber2(v) IN ~n.nan /\ 2 * i < n.n2

RECURSIVE Execute(_, _, _)
RECURSIVE LoopFrom(_, _, _, _)
RECURSIVE SequenceFrom(_, _, _, _)

\* x.execute(context): a value that is no Action has no execute method.
Call(x, context, path) ==
  IF ~IsAction(x) THEN [trace |-> <<>>, err |-> TypeError]
  ELSE Execute(x, context, path)

Enter(a, context, path) ==
  [ev |-> "execute", path |-> path, cls |-> a.cls, context |-> context]

Return(path) == [ev |-> "return", path |-> path]

SendSmsExecute(a, context, path) ==
  Ran(<<Enter(a, context, path),
        [ev |-> "sms", path |-> path, phone |-> a.phone],
        Return(path)>>)

SendEmailExecute(a, context, path) ==
  Ran(<<Enter(a, context, path),
        [ev |-> "email", path |-> path, sender |-> a.sender, receiver |-> a.receiver],
        Return(path)>>)

ConditionExecute(a, context, path) ==
  LET e == EvaluateCondition(a.expression, context)
      head == <<Enter(a, context, path),
                [ev |-> "evaluated", path |-> path, result |-> e.result, error |-> e.error]>>
      branch == IF e.result THEN Call(a.trueAction, context, Child(path, "trueAction", 0))
                ELSE IF Truthy(a.falseAction)
                     THEN Call(a.falseAction, context, Child(path, "falseAction", 0))
                     ELSE Ran(<<>>)
  IN IF branch.err # "none" THEN [trace |-> head \o branch.trace, err |-> branch.err]
     ELSE Ran(head \o branch.trace \o <<Return(path)>>)

\* The for loop of LoopAction.execute from i on.
LoopFrom(a, context, path, i) ==
  IF ~LessThan(i, a.iterations) THEN Ran(<<>>)
  ELSE LET body == Call(a.action, context, Child(path, "action", 0))
           now == <<[ev |-> "iteration", path |-> path, i |-> i + 1]>> \o body.trace
       IN IF body.err # "none" THEN [trace |-> now, err |-> body.err]
          ELSE LET rest == LoopFrom(a, context, path, i + 1)
               IN [trace |-> now \o rest.trace, err |-> rest.err]

LoopExecute(a, context, path) ==
  LET r == LoopFrom(a, context, path, 0)
  IN IF r.err # "none" THEN [trace |-> <<Enter(a, context, path)>> \o r.trace, err |-> r.err]
     ELSE Ran(<<Enter(a, context, path)>> \o r.trace \o <<Return(path)>>)

\* A for-of loop that catches what a step throws and goes on.
SequenceFrom_BestEffort(a, context, path, i) ==
  IF i > Len(a.actions) THEN Ran(<<>>)
  ELSE LET step == Call(a.actions[i], context, Child(path, "actions", i))
           rest == SequenceFrom(a, context, path, i + 1)
       IN [trace |-> step.trace \o rest.trace, err |-> rest.err]

\* The for-of loop of SequenceAction.execute from the i-th action on.
SequenceFrom(a, context, path, i) ==
  IF i > Len(a.actions) THEN Ran(<<>>)
  ELSE LET step == Call(a.actions[i], context, Child(path, "actions", i))
       IN IF step.err # "none" THEN step
          ELSE LET rest == SequenceFrom(a, context, path, i + 1)
               IN [trace |-> step.trace \o rest.trace, err |-> rest.err]

SequenceExecute(a, context, path) ==
  LET r == SequenceFrom(a, context, path, 1)
  IN IF r.err # "none" THEN [trace |-> <<Enter(a, context, path)>> \o r.trace, err |-> r.err]
     ELSE Ran(<<Enter(a, context, path)>> \o r.trace \o <<Return(path)>>)

\* a.execute(context) for an Action a.
Execute(a, context, path) ==
  CASE a.cls = "SendSmsAction" -> SendSmsExecute(a, context, path)
    [] a.cls = "SendEmailAction" -> SendEmailExecute(a, context, path)
    [] a.cls = "ConditionAction" -> ConditionExecute(a, context, path)
    [] a.cls = "LoopAction" -> LoopExecute(a, context, path)
    [] a.cls = "SequenceAction" -> SequenceExecute(a, context, path)

\* ------------------------------------------------------ submitted requests
Put(o, key, v) == [x \in DOMAIN o \cup {key} |-> IF x = key THEN v ELSE o[x]]

\* JSON carries no undefined: an undefined value means the key is left out.
PutOpt(o, key, v) == IF v.k = "undefined" THEN o ELSE Put(o, key, v)

Obj == [k |-> "object"]

Node(type) == [k |-> "object", type |-> Str(type)]

SmsNode(phone) == Put(Node("send_sms"), "params", PutOpt(Obj, "phone", phone))

EmailNode(sender, receiver) ==
  Put(Node("send_email"), "params",
      PutOpt(PutOpt(Obj, "sender", sender), "receiver", receiver))

ConditionNode(expression, t, f) ==
  PutOpt(PutOpt(Put(Node("condition"), "params", PutOpt(Obj, "expression", expression)),
                "trueAction", t), "falseAction", f)

LoopNode(iterations, body) ==
  PutOpt(Put(Node("loop"), "params", PutOpt(Obj, "iterations", iterations)), "action", body)

SequenceNode(items) == Put(Node("sequence"), "actions", Arr(items))

Sms555 == SmsNode(Str("555"))
EmailAB == EmailNode(Str("a@example.com"), Str("b@example.com"))

\* Leaves: two well-formed ones, and the malformed ones (null, an object
\* without type, types without a registered builder, missing params).
Leaves ==
  { Sms555, EmailAB, Null, Obj, Node("bogus"), Node("constructor"), Node("toString"),
    Node("send_sms"), SmsNode(Undefined) }

ExpressionValues ==
  { Str("date === '1.1.2025'"), Str("date === undefined"), Str("!date"),
    Str("syntaxError("), Undefined }

IterationValues ==
  { Num(n) : n \in 0..MaxIter } \cup { Num(-1), Half(3), Str("2"), Undefined }

SequencesOver(C) == UNION { [1..n -> C] : n \in 0..MaxSeqLen }

\* Every condition, loop and sequence node whose children are drawn from C.
CompositesOver(C) ==
  { ConditionNode(e, t, f) : e \in ExpressionValues, t \in C, f \in C \cup {Undefined} }
    \cup { LoopNode(i, b) : i \in IterationValues, b \in C }
    \cup { SequenceNode(items) : items \in SequencesOver(C) }

\* Children of the deeper trees.
InnerNodes ==
  { Sms555,
    LoopNode(Num(MaxIter), EmailAB),
    ConditionNode(Str("syntaxError("), Sms555, EmailAB),
    ConditionNode(Str("!date"), Sms555, Undefined),
    SequenceNode(<<>>),
    SequenceNode(<<Node("constructor"), Sms555>>) }

Trees ==
  Leaves \cup CompositesOver(Leaves) \cup CompositesOver(InnerNodes)
    \cup { Undefined, Node("__proto__"), Node("condition"), Node("loop"), Node("sequence"),
           Put(Node("sequence"), "actions", Str("abc")),
           EmailNode(Undefined, Str("b@example.com")) }

Contexts ==
  { Undefined, Obj, Put(Obj, "date", Str("1.1.2025")), Put(Obj, "date", Str("2.2.2025")) }

\* req.body: undefined when express.json() parsed no JSON body (Express 5),
\* else { decisionTree, context }.
Bodies ==
  { Undefined } \cup { PutOpt(PutOpt(Obj, "decisionTree", t), "context", c) :
                         t \in Trees, c \in Contexts }

\* ------------------------------------------------------------ state machine
NotCalled == [ok |-> FALSE, val |-> Undefined, err |-> "not called"]

Init ==
  /\ registry = ShippedRegistry
  /\ request = Undefined
  /\ pc = "idle"
  /\ action = Undefined
  /\ caught = "none"
  /\ trace = <<>>
  /\ response = Undefined
  /\ wire = NotCalled
  /\ reloaded = [created |-> NotCalled, json |-> NotCalled]

\* A POST /process-decision-tree arrives.
Post(body) ==
  /\ pc = "idle"
  /\ request' = body
  /\ pc' = "posted"
  /\ action' = Undefined
  /\ caught' = "none"
  /\ trace' = <<>>
  /\ response' = Undefined
  /\ wire' = NotCalled
  /\ reloaded' = [created |-> NotCalled, json |-> NotCalled]
  /\ UNCHANGED registry

\* const { decisionTree, context } = req.body, inside the handler's try.
HandlerDestructure ==
  /\ pc = "posted"
  /\ pc' = IF Nullish(request) THEN "handlerCatch" ELSE "create"
  /\ UNCHANGED <<registry, request, action, caught, trace, response, wire, reloaded>>

\* The handler's catch block.
HandlerCatch ==
  /\ pc = "handlerCatch"
  /\ response' = [k |-> "object", code |-> 400, status |-> "error", message |-> TypeError]
  /\ pc' = "responded"
  /\ UNCHANGED <<registry, request, action, caught, trace, wire, reloaded>>

\* processDecisionTree, first statement of its try block; a throw goes to
\* its catch block, which logs the error and lets the method return.
ProcessCreate ==
  /\ pc = "create"
  /\ LET r == CreateAction(registry, Get(request, "decisionTree"))
     IN /\ action' = r.val
        /\ caught' = r.err
        /\ pc' = IF r.ok THEN "execute" ELSE "returned"
  /\ UNCHANGED <<registry, request, trace, response, wire, reloaded>>

\* processDecisionTree, second statement: action.execute(context).
ProcessExecute ==
  /\ pc = "execute"
  /\ LET r == Call(action, Get(request, "context"), <<>>)
     IN /\ trace' = r.trace
        /\ caught' = r.err
  /\ pc' = "returned"
  /\ UNCHANGED <<registry, request, action, response, wire, reloaded>>

\* res.json({ status: "success" }) once processDecisionTree has returned.
HandlerRespond ==
  /\ pc = "returned"
  /\ response' = [k |-> "object", code |-> 200, status |-> "success", message |-> "none"]
  /\ pc' = "responded"
  /\ UNCHANGED <<registry, request, action, caught, trace, wire, reloaded>>

\* A caller serialises the Action it holds: action.toJSON().
Serialize ==
  /\ pc = "responded"
  /\ IsAction(action)
  /\ wire = NotCalled
  /\ wire' = ToJSON(action)
  /\ UNCHANGED <<registry, request, pc, action, caught, trace, response, reloaded>>

\* The caller builds an Action again from that output and serialises it.
Reload ==
  /\ wire.ok
  /\ reloaded.created = NotCalled
  /\ LET r == CreateAction(registry, wire.val)
     IN reloaded' = [created |-> r, json |-> IF r.ok THEN ToJSON(r.val) ELSE NotCalled]
  /\ UNCHANGED <<registry, request, pc, action, caught, trace, response, wire>>

\* The handler has returned: the request, the Action graph built for it and
\* everything derived from them are dropped; only the registry stays.
Discard ==
  /\ pc = "responded"
  /\ request' = Undefined
  /\ pc' = "idle"
  /\ action' = Undefined
  /\ caught' = "none"
  /\ trace' = <<>>
  /\ response' = Undefined
  /\ wire' = NotCalled
  /\ reloaded' = [created |-> NotCalled, json |-> NotCalled]
  /\ UNCHANGED registry

Next ==
  \/ \E body \in Bodies : Post(body)
  \/ HandlerDestructure
  \/ HandlerCatch
  \/ ProcessCreate
  \/ ProcessExecute
  \/ HandlerRespond
  \/ Serialize
  \/ Reload
  \/ Discard

Spec == Init /\ [][Next]_vars

\* ------------------------------------------------- vocabulary of the claims
\* createAction has been called for the request (and has returned or thrown).
CreateDone == pc \in {"execute", "returned", "responded"} /\ ~Nullish(request)

\* createAction threw: a call that returns never returns undefined.
CreateFailed == pc \in {"returned", "responded"} /\ ~Nullish(request) /\ action = Undefined

\* processDecisionTree has returned for the request.
RunOver == pc \in {"returned", "responded"} /\ ~Nullish(request)

Tree == Get(request, "decisionTree")
Context == Get(request, "context")

\* Every node of the graph under a, with its path from the root.
RECURSIVE ActionNodes(_, _)
ActionNodes(a, path) ==
  {[path |-> path, node |-> a]} \cup
    (IF ~IsAction(a) THEN {}
     ELSE CASE a.cls = "ConditionAction" ->
                 ActionNodes(a.trueAction, Child(path, "trueAction", 0)) \cup
                   (IF Truthy(a.falseAction)
                    THEN ActionNodes(a.falseAction, Child(path, "falseAction", 0))
                    ELSE {})
            [] a.cls = "LoopAction" -> ActionNodes(a.action, Child(path, "action", 0))
            [] a.cls = "SequenceAction" ->
                 UNION { ActionNodes(a.actions[i], Child(path, "actions", i)) :
                           i \in 1..Len(a.actions) }
            [] OTHER -> {})

ClassOf(v) == IF IsAction(v) THEN v.cls ELSE "none"

Built == IF IsAction(action) THEN ActionNodes(action, <<>>) ELSE {}

\* Every node of the graph is an instance of an Action class.
WellFormed(a) == \A n \in ActionNodes(a, <<>>) : IsAction(n.node)

\* The places of the trace where an event of this kind happened at this path.
Idx(ev, path) == { i \in 1..Len(trace) : trace[i].ev = ev /\ trace[i].path = path }

Count(ev, path) == Cardinality(Idx(ev, path))

SideEffects == { i \in 1..Len(trace) : trace[i].ev \in {"sms", "email"} }

\* The wire node is one createAction rejects or has no builder for: absent,
\* without type, or of a type that was never registered.
Unbuildable(reg, json) ==
  \/ ~Truthy(json)
  \/ ~Truthy(Get(json, "type"))
  \/ ToPropertyKey(Get(json, "type")) \notin DOMAIN reg

\* Some node of the submitted tree is unbuildable: the node itself, or a node
\* below it under the child keys of its type (a falseAction only when given).
RECURSIVE HasUnbuildableNode(_, _)
HasUnbuildableNode(reg, json) ==
  \/ Unbuildable(reg, json)
  \/ LET type == ToPropertyKey(Get(json, "type"))
     IN CASE type = "condition" ->
               \/ HasUnbuildableNode(reg, Get(json, "trueAction"))
               \/ /\ Truthy(Get(json, "falseAction"))
                  /\ HasUnbuildableNode(reg, Get(json, "falseAction"))
          [] type = "loop" -> HasUnbuildableNode(reg, Get(json, "action"))
          [] type = "sequence" ->
               /\ Get(json, "actions").k = "array"
               /\ \E i \in 1..Len(Get(json, "actions").items) :
                    HasUnbuildableNode(reg, Get(json, "actions").items[i])
          [] OTHER -> FALSE

\* ----------------------------------------------------------------- claims
\* C1: round trip. Whenever an Action graph that createAction built (every
\* node of it an Action) is serialised, toJSON succeeds; createAction of that
\* output succeeds, and the toJSON output of the Action it yields is
\* identical to the first output.
C1_RoundTrip ==
  /\ (wire # NotCalled /\ WellFormed(action)) => wire.ok
  /\ reloaded.created # NotCalled =>
       /\ reloaded.created.ok
       /\ IsAction(reloaded.created.val)
       /\ reloaded.json = wire

\* A sequence of two different steps, the first a condition without
\* falseAction, has been serialised, rebuilt and serialised again.
C1_Witness ==
  /\ reloaded.created.ok
  /\ action.cls = "SequenceAction"
  /\ Len(action.actions) = 2
  /\ ClassOf(action.actions[1]) = "ConditionAction"
  /\ action.actions[1].falseAction = Undefined
  /\ ClassOf(action.actions[2]) = "SendSmsAction"
  /\ wire.val.actions.items[1].type = Str("condition")

\* C2: the run reports its outcome to the caller. Once the response is sent,
\* it is "success" exactly when the tree was built and executed to the end,
\* and a failure carrying a message whenever building or executing threw.
C2_OutcomeReported ==
  pc = "responded" =>
    IF ~Nullish(request) /\ action # Undefined /\ caught = "none"
    THEN response.status = "success"
    ELSE response.status = "error" /\ response.message # "none"

\* C3: createAction classifies structural errors. An absent node or one
\* without type fails with the malformed-node error; a node whose type has no
\* registered builder fails with the unknown-action-type error; a node whose
\* type is registered gets exactly what the registered builder gives.
C3_FactoryClassifies ==
  CreateDone =>
    LET type == ToPropertyKey(Get(Tree, "type"))
        r == IF CreateFailed THEN Throw(caught) ELSE Ok(action)
    IN IF ~Truthy(Tree) \/ ~Truthy(Get(Tree, "type")) THEN r = Throw(InvalidJSON)
       ELSE IF type \notin DOMAIN registry THEN r = Throw(UnknownType)
       ELSE r = CallBuilder(registry, registry[type], Tree)

\* C7: no side effect on structural failure. When some node of the submitted
\* tree is absent, lacks a type or has an unregistered type, the run ends in
\* the failure branch of processDecisionTree with no side effect performed.
C7_NoEffectOnStructuralFailure ==
  HasUnbuildableNode(registry, Tree) =>
    /\ SideEffects = {}
    /\ RunOver => caught # "none"

\* The k-th event of this kind at this path comes at place j.
Rank(ev, path, j) == Cardinality({ i \in Idx(ev, path) : i <= j })

\* Every execute call of the run was handed the context of the request.
SameContext == \A i \in 1..Len(trace) : trace[i].ev = "execute" => trace[i].context = Context

\* How often control reached step i of the sequence at path p, and how often
\* that step returned (a step that is no Action throws when it is called).
StepReturned(n, i) ==
  IF IsAction(n.node.actions[i]) THEN Count("return", Child(n.path, "actions", i)) ELSE 0

StepReached(n, i) == IF i = 1 THEN Count("execute", n.path) ELSE StepReturned(n, i - 1)

Sequences == { n \in Built : ClassOf(n.node) = "SequenceAction" }

\* C4 as claimed: Sequence is best-effort. Every step of a sequence is
\* started each time the sequence is executed, also after a step that threw,
\* and the sequence itself returns.
C4_BestEffort ==
  \A n \in Sequences :
    /\ \A i \in 1..Len(n.node.actions) :
         IsAction(n.node.actions[i]) =>
           Count("execute", Child(n.path, "actions", i)) = Count("execute", n.path)
    /\ RunOver => Count("return", n.path) = Count("execute", n.path)

\* C4 as amended: Sequence is ordered and fail-fast. Steps are started in
\* array order with the context of the run; step i+1 is started exactly when
\* step i has returned; when a step throws, the later steps are not started,
\* the sequence does not return and the error reaches processDecisionTree.
C4_FailFast ==
  /\ SameContext
  /\ \A n \in Sequences :
       /\ \A i \in 1..Len(n.node.actions) :
            /\ IsAction(n.node.actions[i]) =>
                 Count("execute", Child(n.path, "actions", i)) = StepReached(n, i)
            /\ (RunOver /\ ~IsAction(n.node.actions[i]) /\ StepReached(n, i) > 0) =>
                 caught = TypeError
            /\ (i > 1 /\ IsAction(n.node.actions[i]) /\ IsAction(n.node.actions[i - 1])) =>
                 \A j \in Idx("execute", Child(n.path, "actions", i)) :
                   \E r \in Idx("return", Child(n.path, "actions", i - 1)) :
                     /\ r < j
                     /\ Rank("return", Child(n.path, "actions", i - 1), r) =
                          Rank("execute", Child(n.path, "actions", i), j)
       /\ RunOver =>
            Count("return", n.path) =
              IF Len(n.node.actions) = 0 THEN Count("execute", n.path)
              ELSE StepReturned(n, Len(n.node.actions))

\* A sequence was executed whose first step threw and whose second step, an
\* Action, was therefore never started.
C4_Witness ==
  /\ RunOver
  /\ IsAction(action)
  /\ action.cls = "SequenceAction"
  /\ Len(action.actions) = 2
  /\ ~IsAction(action.actions[1])
  /\ IsAction(action.actions[2])
  /\ Count("execute", <<>>) = 1
  /\ Count("execute", <<<<"actions", 2>>>>) = 0
  /\ caught = TypeError

Loops == { n \in Built : ClassOf(n.node) = "LoopAction" }

\* The iterations value is a non-negative integer.
IsCount(v) == v.k = "number" /\ v.n2 >= 0 /\ v.n2 % 2 = 0

\* C5: repeat count law. For a loop whose iterations value is a non-negative
\* integer n, each execution of the loop calls the body's execute n times
\* when the body returns normally, never more than n times, one call after
\* the other has returned, each with the context the run was given.
C5_RepeatCount ==
  /\ SameContext
  /\ \A n \in Loops :
       (IsCount(n.node.iterations) /\ IsAction(n.node.action)) =>
         LET body == Child(n.path, "action", 0)
             times == n.node.iterations.n2 \div 2
         IN /\ Count("execute", body) <= times * Count("execute", n.path)
            /\ Count("execute", body) = Count("iteration", n.path)
            /\ (RunOver /\ caught = "none") =>
                 /\ Count("execute", body) = times * Count("execute", n.path)
                 /\ Count("return", body) = Count("execute", body)
            /\ \A j1, j2 \in Idx("execute", body) :
                 j1 < j2 => \E r \in Idx("return", body) : j1 < r /\ r < j2

\* A loop of MaxIter iterations whose body is itself a loop of MaxIter
\* iterations has run to the end: MaxIter body calls, MaxIter * MaxIter
\* calls of the inner body.
C5_Witness ==
  /\ pc = "responded"
  /\ caught = "none"
  /\ IsAction(action)
  /\ action.cls = "LoopAction"
  /\ action.iterations = Num(MaxIter)
  /\ ClassOf(action.action) = "LoopAction"
  /\ action.action.iterations = Num(MaxIter)
  /\ Count("execute", <<<<"action", 0>>>>) = MaxIter
  /\ Count("execute", <<<<"action", 0>>, <<"action", 0>>>>) = MaxIter * MaxIter

Conditions == { n \in Built : ClassOf(n.node) = "ConditionAction" }

\* The event that follows place j of the trace is this event at this path.
NextIs(j, ev, path) == j < Len(trace) /\ trace[j + 1].ev = ev /\ trace[j + 1].path = path

\* C6: condition branch law. Each evaluation of a Condition is followed by
\* exactly one branch: trueAction when the result is truthy, falseAction when
\* it is falsy and present, nothing (the Condition returns) when it is falsy
\* and absent; an evaluation that throws counts as false and the Condition
\* goes on with the false branch instead of throwing.
C6_BranchLaw ==
  \A n \in Conditions :
    LET tp == Child(n.path, "trueAction", 0)
        fp == Child(n.path, "falseAction", 0)
        evals == Idx("evaluated", n.path)
        T == { j \in evals : trace[j].result }
        F == { j \in evals : ~trace[j].result }
    IN /\ Cardinality(evals) = Count("execute", n.path)
       /\ \A j \in evals : trace[j].error # "none" => ~trace[j].result
       /\ n.node.expression = Str("syntaxError(") =>
            \A j \in evals : trace[j].error = "SyntaxError"
       /\ n.node.expression = Str("date === '1.1.2025'") =>
            \A j \in evals : trace[j].result <=> (Get(Context, "date") = Str("1.1.2025"))
       /\ IsAction(n.node.trueAction) =>
            /\ Count("execute", tp) = Cardinality(T)
            /\ \A j \in T : NextIs(j, "execute", tp)
       /\ IsAction(n.node.falseAction) =>
            /\ Count("execute", fp) = Cardinality(F)
            /\ \A j \in F : NextIs(j, "execute", fp)
       /\ ~Truthy(n.node.falseAction) => \A j \in F : NextIs(j, "return", n.path)
       /\ (RunOver /\ caught = "none") => Count("return", n.path) = Count("execute", n.path)

\* A sequence whose first step is a Condition with an unparseable expression
\* ran to the end: the false branch sent its email, the true branch sent
\* nothing, and the step after the Condition was executed.
C6_Witness ==
  /\ pc = "responded"
  /\ caught = "none"
  /\ ClassOf(action) = "SequenceAction"
  /\ Len(action.actions) = 2
  /\ ClassOf(action.actions[1]) = "ConditionAction"
  /\ action.actions[1].expression = Str("syntaxError(")
  /\ Count("email", <<<<"actions", 1>>, <<"falseAction", 0>>>>) = 1
  /\ Count("sms", <<<<"actions", 1>>, <<"trueAction", 0>>>>) = 0
  /\ Count("execute", <<<<"actions", 2>>>>) = 1

\* The required params fields of the node, by its type.
RequiredFields(type) ==
  CASE type = "send_sms" -> {"phone"}
    [] type = "send_email" -> {"sender", "receiver"}
    [] type = "condition" -> {"expression"}
    [] type = "loop" -> {"iterations"}
    [] OTHER -> {}

TreeType == ToPropertyKey(Get(Tree, "type"))

\* The submitted node is of a registered type and lacks params or one of
\* the params fields its type requires.
MissingRequired ==
  /\ Truthy(Tree)
  /\ Truthy(Get(Tree, "type"))
  /\ \E f \in RequiredFields(TreeType) : Get(Get(Tree, "params"), f) = Undefined

\* The child nodes of the submitted node all build.
ChildrenBuild ==
  CASE TreeType = "condition" ->
         /\ CreateAction(registry, Get(Tree, "trueAction")).ok
         /\ Truthy(Get(Tree, "falseAction")) =>
              CreateAction(registry, Get(Tree, "falseAction")).ok
    [] TreeType = "loop" -> CreateAction(registry, Get(Tree, "action")).ok
    [] OTHER -> TRUE

\* C8 as claimed: a node of a registered type that lacks a required params
\* field is rejected with the malformed-node error and nothing is built.
C8_MissingParamRejected ==
  (CreateDone /\ MissingRequired) => (CreateFailed /\ caught = InvalidJSON)

\* C8 as amended: the builders do not validate params. Without a params
\* object the builder throws the engine's TypeError, not the malformed-node
\* error; with a params object that lacks the field the Action is built (when
\* its children build) with that field undefined.
C8_MissingParamUnchecked ==
  (CreateDone /\ MissingRequired) =>
    IF Nullish(Get(Tree, "params")) THEN CreateFailed /\ caught = TypeError
    ELSE IF ~ChildrenBuild THEN CreateFailed
    ELSE /\ IsAction(action)
         /\ \A f \in RequiredFields(TreeType) : action[f] = Get(Get(Tree, "params"), f)

\* A send_sms node with params {} has been built into a SendSmsAction whose
\* phone is undefined.
C8_Witness ==
  /\ pc = "execute"
  /\ Get(Tree, "params") = Obj
  /\ ClassOf(action) = "SendSmsAction"
  /\ action.phone = Undefined

\* The wire node at this path of the submitted tree.
RECURSIVE WireAt(_, _)
WireAt(json, path) ==
  IF Len(path) = 0 THEN json
  ELSE LET h == Head(path)
       IN WireAt(IF h[1] = "actions" THEN Get(json, "actions").items[h[2]]
                 ELSE Get(json, h[1]), Tail(path))

\* C9 as claimed: every loop of a built graph has a non-negative integer
\* iteration count.
C9_CountIsNatural == \A n \in Loops : IsCount(n.node.iterations)

\* C9 as amended: the iteration count of every loop of a built graph is the
\* params.iterations value of its wire node, unchecked; a loop node whose
\* params.iterations is negative, fractional, not a number or missing is
\* built into a LoopAction whenever its body builds.
C9_CountIsWireValue ==
  /\ \A n \in Loops :
       n.node.iterations = Get(Get(WireAt(Tree, n.path), "params"), "iterations")
  /\ (CreateDone /\ Truthy(Tree) /\ Get(Tree, "type") = Str("loop")
        /\ ~Nullish(Get(Tree, "params")) /\ ChildrenBuild) =>
       ClassOf(action) = "LoopAction"

\* A loop node with iterations -1 has been built into a LoopAction that
\* carries -1.
C9_Witness ==
  /\ pc = "execute"
  /\ ClassOf(action) = "LoopAction"
  /\ action.iterations = Num(-1)
  /\ Get(Get(Tree, "params"), "iterations") = Num(-1)

\* The expressions that read the variable date.
ReadsDate ==
  { Str("date === '1.1.2025'"), Str("date === undefined"), Str("!date") }

\* Truthy when date is undefined.
TruthyOnUndefined == { Str("date === undefined"), Str("!date") }

DateAbsent == ~Truthy(Context) \/ "date" \notin DOMAIN Context

\* C10 as claimed: a variable that is no key of the context resolves to
\* undefined without an evaluation error, so an expression that is truthy
\* for undefined executes trueAction.
C10_AbsentKeyIsUndefined ==
  \A n \in Conditions :
    (DateAbsent /\ n.node.expression \in ReadsDate) =>
      \A j \in Idx("evaluated", n.path) :
        /\ trace[j].error = "none"
        /\ n.node.expression \in TruthyOnUndefined => trace[j].result

\* C10 as amended: reading a variable that is no key of the context (and no
\* global) throws a ReferenceError inside the Condition's try block; the
\* result is false, trueAction is not executed and the false branch, or
\* nothing, follows.
C10_AbsentKeyThrows ==
  \A n \in Conditions :
    (DateAbsent /\ n.node.expression \in ReadsDate) =>
      /\ Count("execute", Child(n.path, "trueAction", 0)) = 0
      /\ \A j \in Idx("evaluated", n.path) :
           /\ trace[j].error = "ReferenceError"
           /\ ~trace[j].result
           /\ IF IsAction(n.node.falseAction)
              THEN NextIs(j, "execute", Child(n.path, "falseAction", 0))
              ELSE Truthy(n.node.falseAction) \/ NextIs(j, "return", n.path)

\* The condition !date was evaluated against a context without date: the
\* evaluation threw and the false branch sent its email.
C10_Witness ==
  /\ pc = "responded"
  /\ Context = Obj
  /\ ClassOf(action) = "ConditionAction"
  /\ action.expression = Str("!date")
  /\ ClassOf(action.falseAction) = "SendEmailAction"
  /\ Count("email", <<<<"falseAction", 0>>>>) = 1
  /\ \E j \in Idx("evaluated", <<>>) : trace[j].error = "ReferenceError"

====
